---- MODULE Spec2Model ----
(***************************************************************************)
(* A model of convert.py: format detection, the USFM and SWORD-imp         *)
(* parsers, the book identity resolver, the directory merger and the       *)
(* conversion loop of main.                                                *)
(*                                                                         *)
(* Text is modelled as a sequence of characters; a character is a string   *)
(* of the module: "a" is the letter a, "a'" is the letter a with an acute  *)
(* accent, " " is the space and "LF" is the line feed.                     *)
(***************************************************************************)
EXTENDS Integers, Sequences, FiniteSets, TLC

VARIABLES
  name, resolved,
  path, detected,
  usfm_lines, usfm_pos, usfm, usfm_result,
  imp_lines, imp_pos, imp_books, imp_result,
  input, pc, file_pos, all_books, source, book_pos, outputs, manifest

resolveVars == <<name, resolved>>
detectVars == <<path, detected>>
usfmVars == <<usfm_lines, usfm_pos, usfm, usfm_result>>
impVars == <<imp_lines, imp_pos, imp_books, imp_result>>
mainVars == <<input, pc, file_pos, all_books, source, book_pos, outputs, manifest>>
vars == <<resolveVars, detectVars, usfmVars, impVars, mainVars>>

None == "None"

(***************************************************************************)
(* Characters and strings                                                  *)
(***************************************************************************)

\* str.lower() on one character
lower(c) ==
  CASE c = "A" -> "a"
    [] c = "B" -> "b"
    [] c = "C" -> "c"
    [] c = "D" -> "d"
    [] c = "E" -> "e"
    [] c = "F" -> "f"
    [] c = "G" -> "g"
    [] c = "H" -> "h"
    [] c = "I" -> "i"
    [] c = "J" -> "j"
    [] c = "K" -> "k"
    [] c = "L" -> "l"
    [] c = "M" -> "m"
    [] c = "N" -> "n"
    [] c = "O" -> "o"
    [] c = "P" -> "p"
    [] c = "Q" -> "q"
    [] c = "R" -> "r"
    [] c = "S" -> "s"
    [] c = "T" -> "t"
    [] c = "U" -> "u"
    [] c = "V" -> "v"
    [] c = "W" -> "w"
    [] c = "X" -> "x"
    [] c = "Y" -> "y"
    [] c = "Z" -> "z"
    [] c = "A'" -> "a'"
    [] c = "E'" -> "e'"
    [] c = "I'" -> "i'"
    [] c = "O'" -> "o'"
    [] c = "U'" -> "u'"
    [] OTHER -> c

\* str.upper() on one character
upper(c) ==
  CASE c = "a" -> "A"
    [] c = "b" -> "B"
    [] c = "c" -> "C"
    [] c = "d" -> "D"
    [] c = "e" -> "E"
    [] c = "f" -> "F"
    [] c = "g" -> "G"
    [] c = "h" -> "H"
    [] c = "i" -> "I"
    [] c = "j" -> "J"
    [] c = "k" -> "K"
    [] c = "l" -> "L"
    [] c = "m" -> "M"
    [] c = "n" -> "N"
    [] c = "o" -> "O"
    [] c = "p" -> "P"
    [] c = "q" -> "Q"
    [] c = "r" -> "R"
    [] c = "s" -> "S"
    [] c = "t" -> "T"
    [] c = "u" -> "U"
    [] c = "v" -> "V"
    [] c = "w" -> "W"
    [] c = "x" -> "X"
    [] c = "y" -> "Y"
    [] c = "z" -> "Z"
    [] c = "a'" -> "A'"
    [] c = "e'" -> "E'"
    [] c = "i'" -> "I'"
    [] c = "o'" -> "O'"
    [] c = "u'" -> "U'"
    [] OTHER -> c

\* unicodedata.normalize("NFD", c) without the characters of category Mn
nfd_without_marks(c) ==
  CASE c = "a'" -> <<"a">>
    [] c = "e'" -> <<"e">>
    [] c = "i'" -> <<"i">>
    [] c = "o'" -> <<"o">>
    [] c = "u'" -> <<"u">>
    [] c = "A'" -> <<"A">>
    [] c = "E'" -> <<"E">>
    [] c = "I'" -> <<"I">>
    [] c = "O'" -> <<"O">>
    [] c = "U'" -> <<"U">>
    [] OTHER -> <<c>>

str_lower(s) == [i \in 1..Len(s) |-> lower(s[i])]

str_upper(s) == [i \in 1..Len(s) |-> upper(s[i])]

RECURSIVE without_marks(_)
\* the characters of NFD(s) that are not of category Mn
without_marks(s) ==
  IF s = <<>> THEN <<>> ELSE nfd_without_marks(Head(s)) \o without_marks(Tail(s))

RECURSIVE without_spaces(_)
\* s.replace(" ", "")
without_spaces(s) ==
  IF s = <<>> THEN <<>>
  ELSE (IF Head(s) = " " THEN <<>> ELSE <<Head(s)>>) \o without_spaces(Tail(s))

startswith(s, prefix) ==
  /\ Len(prefix) <= Len(s)
  /\ SubSeq(s, 1, Len(prefix)) = prefix

\* Python's  sub in s
contains(s, sub) ==
  \E k \in 0..(Len(s) - Len(sub)) : SubSeq(s, k + 1, k + Len(sub)) = sub

\* normalize without the removal of spaces
normalize_keeps_spaces(text) ==
  without_marks(str_lower(text))

normalize(text) ==
  LET lowered == str_lower(text)
      unaccented == without_marks(lowered)
  IN  without_spaces(unaccented)

(***************************************************************************)
(* The book table, in its declaration order                                *)
(***************************************************************************)

BOOK_MAP ==
  <<
    [abbr |-> <<"1","c","h">>,
     long |-> <<"1"," ","C","r","o'","n","i","c","a","s">>],
    [abbr |-> <<"1","c","o">>,
     long |-> <<"1"," ","C","o","r","i","n","t","i","o","s">>],
    [abbr |-> <<"1","j","n">>,
     long |-> <<"1"," ","J","u","a","n">>],
    [abbr |-> <<"1","k","i">>,
     long |-> <<"1"," ","R","e","y","e","s">>],
    [abbr |-> <<"1","p","e">>,
     long |-> <<"1"," ","P","e","d","r","o">>],
    [abbr |-> <<"1","s","a">>,
     long |-> <<"1"," ","S","a","m","u","e","l">>],
    [abbr |-> <<"1","t","h">>,
     long |-> <<"1"," ","T","e","s","a","l","o","n","i","c","e","n","s","e","s">>],
    [abbr |-> <<"1","t","i">>,
     long |-> <<"1"," ","T","i","m","o","t","e","o">>],
    [abbr |-> <<"2","c","h">>,
     long |-> <<"2"," ","C","r","o'","n","i","c","a","s">>],
    [abbr |-> <<"2","c","o">>,
     long |-> <<"2"," ","C","o","r","i","n","t","i","o","s">>],
    [abbr |-> <<"2","j","n">>,
     long |-> <<"2"," ","J","u","a","n">>],
    [abbr |-> <<"2","k","i">>,
     long |-> <<"2"," ","R","e","y","e","s">>],
    [abbr |-> <<"2","p","e">>,
     long |-> <<"2"," ","P","e","d","r","o">>],
    [abbr |-> <<"2","s","a">>,
     long |-> <<"2"," ","S","a","m","u","e","l">>],
    [abbr |-> <<"2","t","h">>,
     long |-> <<"2"," ","T","e","s","a","l","o","n","i","c","e","n","s","e","s">>],
    [abbr |-> <<"2","t","i">>,
     long |-> <<"2"," ","T","i","m","o","t","e","o">>],
    [abbr |-> <<"3","j","n">>,
     long |-> <<"3"," ","J","u","a","n">>],
    [abbr |-> <<"a","c","t">>,
     long |-> <<"H","e","c","h","o","s">>],
    [abbr |-> <<"a","m","o">>,
     long |-> <<"A","m","o'","s">>],
    [abbr |-> <<"c","o","l">>,
     long |-> <<"C","o","l","o","s","e","n","s","e","s">>],
    [abbr |-> <<"d","a","n">>,
     long |-> <<"D","a","n","i","e","l">>],
    [abbr |-> <<"d","e","u">>,
     long |-> <<"D","e","u","t","e","r","o","n","o","m","i","o">>],
    [abbr |-> <<"e","c","c">>,
     long |-> <<"E","c","l","e","s","i","a","s","t","e'","s">>],
    [abbr |-> <<"e","p","h">>,
     long |-> <<"E","f","e","s","i","o","s">>],
    [abbr |-> <<"e","s","t">>,
     long |-> <<"E","s","t","e","r">>],
    [abbr |-> <<"e","x","o">>,
     long |-> <<"E'","x","o","d","o">>],
    [abbr |-> <<"e","z","k">>,
     long |-> <<"E","z","e","q","u","i","e","l">>],
    [abbr |-> <<"e","z","r">>,
     long |-> <<"E","s","d","r","a","s">>],
    [abbr |-> <<"g","a","l">>,
     long |-> <<"G","a'","l","a","t","a","s">>],
    [abbr |-> <<"g","e","n">>,
     long |-> <<"G","e'","n","e","s","i","s">>],
    [abbr |-> <<"h","a","b">>,
     long |-> <<"H","a","b","a","c","u","c">>],
    [abbr |-> <<"h","a","g">>,
     long |-> <<"H","a","g","e","o">>],
    [abbr |-> <<"h","e","b">>,
     long |-> <<"H","e","b","r","e","o","s">>],
    [abbr |-> <<"h","o","s">>,
     long |-> <<"O","s","e","a","s">>],
    [abbr |-> <<"i","s","a">>,
     long |-> <<"I","s","a","i'","a","s">>],
    [abbr |-> <<"j","a","s">>,
     long |-> <<"S","a","n","t","i","a","g","o">>],
    [abbr |-> <<"j","d","g">>,
     long |-> <<"J","u","e","c","e","s">>],
    [abbr |-> <<"j","e","r">>,
     long |-> <<"J","e","r","e","m","i'","a","s">>],
    [abbr |-> <<"j","h","n">>,
     long |-> <<"J","u","a","n">>],
    [abbr |-> <<"j","o","b">>,
     long |-> <<"J","o","b">>],
    [abbr |-> <<"j","o","l">>,
     long |-> <<"J","o","e","l">>],
    [abbr |-> <<"j","o","n">>,
     long |-> <<"J","o","n","a'","s">>],
    [abbr |-> <<"j","o","s">>,
     long |-> <<"J","o","s","u","e'">>],
    [abbr |-> <<"j","u","d">>,
     long |-> <<"J","u","d","a","s">>],
    [abbr |-> <<"l","a","m">>,
     long |-> <<"L","a","m","e","n","t","a","c","i","o","n","e","s">>],
    [abbr |-> <<"l","e","v">>,
     long |-> <<"L","e","v","i'","t","i","c","o">>],
    [abbr |-> <<"l","u","k">>,
     long |-> <<"L","u","c","a","s">>],
    [abbr |-> <<"m","a","l">>,
     long |-> <<"M","a","l","a","q","u","i'","a","s">>],
    [abbr |-> <<"m","a","t">>,
     long |-> <<"M","a","t","e","o">>],
    [abbr |-> <<"m","i","c">>,
     long |-> <<"M","i","q","u","e","a","s">>],
    [abbr |-> <<"m","r","k">>,
     long |-> <<"M","a","r","c","o","s">>],
    [abbr |-> <<"n","a","m">>,
     long |-> <<"N","a","h","u","m">>],
    [abbr |-> <<"n","e","h">>,
     long |-> <<"N","e","h","e","m","i'","a","s">>],
    [abbr |-> <<"n","u","m">>,
     long |-> <<"N","u'","m","e","r","o","s">>],
    [abbr |-> <<"o","b","a">>,
     long |-> <<"A","b","d","i'","a","s">>],
    [abbr |-> <<"p","h","m">>,
     long |-> <<"F","i","l","e","m","o'","n">>],
    [abbr |-> <<"p","h","p">>,
     long |-> <<"F","i","l","i","p","e","n","s","e","s">>],
    [abbr |-> <<"p","r","o">>,
     long |-> <<"P","r","o","v","e","r","b","i","o","s">>],
    [abbr |-> <<"p","s","a">>,
     long |-> <<"S","a","l","m","o","s">>],
    [abbr |-> <<"r","e","v">>,
     long |-> <<"A","p","o","c","a","l","i","p","s","i","s">>],
    [abbr |-> <<"r","o","m">>,
     long |-> <<"R","o","m","a","n","o","s">>],
    [abbr |-> <<"r","u","t">>,
     long |-> <<"R","u","t">>],
    [abbr |-> <<"s","n","g">>,
     long |-> <<"C","a","n","t","a","r"," ","d","e"," ","l","o","s"," ","C","a","n","t","a","r","e","s">>],
    [abbr |-> <<"t","i","t">>,
     long |-> <<"T","i","t","o">>],
    [abbr |-> <<"z","e","c">>,
     long |-> <<"Z","a","c","a","r","i'","a","s">>],
    [abbr |-> <<"z","e","p">>,
     long |-> <<"S","o","f","o","n","i'","a","s">>]
  >>

NBooks == Len(BOOK_MAP)

\* normalize(item["long"]) of every entry
NormLong == [i \in 1..NBooks |-> normalize(BOOK_MAP[i].long)]

\* item["long"].lower() of every entry
LowerLong == [i \in 1..NBooks |-> str_lower(BOOK_MAP[i].long)]

(***************************************************************************)
(* find_book_id_from_name                                                  *)
(***************************************************************************)

\* the entry a loop over the table returns at, matches being the entries
\* that satisfy its test: the first in table order, 0 when the loop ends
\* without returning
first_entry(matches) ==
  IF matches = {} THEN 0 ELSE CHOOSE i \in matches : \A j \in matches : i <= j

\* re.match(r"^([1-3])(.+)$", s): "." matches no line feed and "$" matches
\* at the end or before a line feed that ends the string
number_base_match(s) ==
  IF Len(s) >= 2 /\ s[1] \in {"1", "2", "3"}
  THEN LET rest == Tail(s)
           base == IF rest[Len(rest)] = "LF"
                   THEN SubSeq(rest, 1, Len(rest) - 1)
                   ELSE rest
       IN  IF base # <<>> /\ \A k \in 1..Len(base) : base[k] # "LF"
           THEN [matched |-> TRUE, number |-> s[1], base |-> base]
           ELSE [matched |-> FALSE]
  ELSE [matched |-> FALSE]

find_book_id_from_name(n) ==
  LET name_norm == normalize(n)
      exact(i) == LowerLong[i] = str_lower(n)
      normalized(i) == NormLong[i] = name_norm
      m == number_base_match(name_norm)
      numbered(i) == /\ m.matched
                     /\ startswith(BOOK_MAP[i].abbr, <<m.number>>)
                     /\ startswith(NormLong[i], m.base)
      flexible(i) == contains(NormLong[i], name_norm)
      t1 == first_entry({i \in 1..NBooks : exact(i)})
      t2 == first_entry({i \in 1..NBooks : normalized(i)})
      t3 == first_entry({i \in 1..NBooks : numbered(i)})
      t4 == first_entry({i \in 1..NBooks : flexible(i)})
  IN  IF t1 # 0 THEN [status |-> "ok", tier |-> 1, entry |-> t1, abbr |-> BOOK_MAP[t1].abbr]
      ELSE IF t2 # 0 THEN [status |-> "ok", tier |-> 2, entry |-> t2, abbr |-> BOOK_MAP[t2].abbr]
      ELSE IF t3 # 0 THEN [status |-> "ok", tier |-> 3, entry |-> t3, abbr |-> BOOK_MAP[t3].abbr]
      ELSE IF t4 # 0 THEN [status |-> "ok", tier |-> 4, entry |-> t4, abbr |-> BOOK_MAP[t4].abbr]
      ELSE [status |-> "ValueError", tier |-> 0, entry |-> 0, abbr |-> <<>>]

(***************************************************************************)
(* detect_format                                                           *)
(***************************************************************************)

\* detect_format with the "<XMLBIBLE" test ahead of the "<osis" test
detect_format_zefania_first(p) ==
  LET ext == str_lower(p.suffix)
  IN  IF ext = <<".", "j", "s", "o", "n">> THEN "json"
      ELSE IF ext \in {<<".", "u", "s", "f", "m">>, <<".", "t", "x", "t">>} THEN "usfm"
      ELSE IF ext = <<".", "i", "m", "p">> THEN "imp"
      ELSE IF ext = <<".", "x", "m", "l">>
           THEN IF contains(p.text, <<"<", "X", "M", "L", "B", "I", "B", "L", "E">>)
                THEN "zefania"
                ELSE IF contains(p.text, <<"<", "o", "s", "i", "s">>) THEN "osis"
                ELSE "simplexml"
      ELSE "ValueError"

\* detect_format(path): path.suffix and, for .xml, the text of the file
detect_format(p) ==
  LET ext == str_lower(p.suffix)
  IN  IF ext = <<".", "j", "s", "o", "n">> THEN "json"
      ELSE IF ext \in {<<".", "u", "s", "f", "m">>, <<".", "t", "x", "t">>} THEN "usfm"
      ELSE IF ext = <<".", "i", "m", "p">> THEN "imp"
      ELSE IF ext = <<".", "x", "m", "l">>
           THEN IF contains(p.text, <<"<", "o", "s", "i", "s">>) THEN "osis"
                ELSE IF contains(p.text, <<"<", "X", "M", "L", "B", "I", "B", "L", "E">>)
                     THEN "zefania"
                ELSE IF /\ contains(p.text, <<"<", "b", "i", "b", "l", "e">>)
                        /\ contains(p.text, <<"<", "b", " ">>)
                     THEN "simplexml"
                ELSE "simplexml"
      ELSE "ValueError"

(***************************************************************************)
(* The parsers: shared pieces                                              *)
(***************************************************************************)

\* USFM_TO_NAME.get(code, default)
usfm_to_name(code, default) ==
  CASE code = <<"G", "E", "N">> -> <<"G", "e'", "n", "e", "s", "i", "s">>
    [] code = <<"E", "X", "O">> -> <<"E'", "x", "o", "d", "o">>
    [] code = <<"L", "E", "V">> -> <<"L", "e", "v", "i'", "t", "i", "c", "o">>
    [] code = <<"N", "U", "M">> -> <<"N", "u'", "m", "e", "r", "o", "s">>
    [] code = <<"D", "E", "U">> -> <<"D", "e", "u", "t", "e", "r", "o", "n", "o", "m", "i", "o">>
    [] code = <<"J", "H", "N">> -> <<"J", "u", "a", "n">>
    [] code = <<"M", "R", "K">> -> <<"M", "a", "r", "c", "o", "s">>
    [] code = <<"M", "A", "T">> -> <<"M", "a", "t", "e", "o">>
    [] code = <<"L", "U", "K">> -> <<"L", "u", "c", "a", "s">>
    [] OTHER -> default

\* {"type": "verse", "verse": vn, "lines": [text]}
verse_item(vn, text) == [type |-> "verse", verse |-> vn, lines |-> <<text>>]

\* the last element of a non-empty sequence replaced
with_last(seq, x) == [seq EXCEPT ![Len(seq)] = x]

(***************************************************************************)
(* load_usfm                                                               *)
(*                                                                         *)
(* A line is the outcome of the three regular expressions on it: kind      *)
(* "id" with the captured code, "c" with the number, "v" with the number   *)
(* and the text, or "other" when none matches.  An optional object is a    *)
(* sequence: <<>> is None and <<x>> is the object x.  current_chapter is   *)
(* the object that is also the last chapter of current_book, so a verse    *)
(* appended to it is appended to both.                                     *)
(***************************************************************************)

usfm_start ==
  [books |-> <<>>, current_book |-> <<>>, current_chapter |-> <<>>, status |-> "running"]

\* one iteration of the loop over the lines
usfm_line(st, line) ==
  IF line.kind = "id"
  THEN LET book_code == str_upper(line.code)
           book_name == usfm_to_name(book_code, book_code)
       IN  [st EXCEPT
              !.books = IF st.current_book # <<>>
                        THEN Append(@, st.current_book[1])
                        ELSE @,
              !.current_book = <<[name |-> book_name, chapters |-> <<>>]>>,
              !.current_chapter = <<>>]
  ELSE IF line.kind = "c"
  THEN LET chapter == [number |-> line.n, items |-> <<>>]
       IN  IF st.current_book = <<>>
           THEN \* None["chapters"]
                [st EXCEPT !.current_chapter = <<chapter>>, !.status = "TypeError"]
           ELSE [st EXCEPT
                   !.current_chapter = <<chapter>>,
                   !.current_book = <<[@[1] EXCEPT !.chapters = Append(@, chapter)]>>]
  ELSE IF line.kind = "v" /\ st.current_chapter # <<>>
  THEN LET chapter == [st.current_chapter[1] EXCEPT
                         !.items = Append(@, verse_item(line.n, line.text))]
       IN  [st EXCEPT
              !.current_chapter = <<chapter>>,
              !.current_book = <<[@[1] EXCEPT !.chapters = with_last(@, chapter)]>>]
  ELSE st

\* the lines after the loop
usfm_return(st) ==
  [status |-> "ok",
   books |-> IF st.current_book # <<>>
             THEN Append(st.books, st.current_book[1])
             ELSE st.books]

RECURSIVE usfm_loop(_, _)
usfm_loop(st, lines) ==
  IF lines = <<>> \/ st.status # "running"
  THEN st
  ELSE usfm_loop(usfm_line(st, Head(lines)), Tail(lines))

load_usfm(lines) ==
  LET st == usfm_loop(usfm_start, lines)
  IN  IF st.status = "running"
      THEN usfm_return(st)
      ELSE [status |-> st.status, books |-> <<>>]

(***************************************************************************)
(* load_imp                                                                *)
(*                                                                         *)
(* A line is the outcome of IMP_RE on it: matched, and then the code, the  *)
(* chapter, the verse and the text.  A dict is the sequence of its values  *)
(* in insertion order, which is the order Python iterates it in.           *)
(***************************************************************************)

\* the place in the dict books of the key nm, 0 when it is no key
book_index(books, nm) ==
  IF \E k \in 1..Len(books) : books[k].name = nm
  THEN CHOOSE k \in 1..Len(books) : books[k].name = nm
  ELSE 0

\* the place among chapters of the first chapter numbered n, 0 when none is
chapter_index(chapters, n) ==
  IF \E k \in 1..Len(chapters) : chapters[k].number = n
  THEN CHOOSE k \in 1..Len(chapters) :
         chapters[k].number = n /\ \A j \in 1..(k - 1) : chapters[j].number # n
  ELSE 0

\* one iteration with the new chapter put at its place in numeric order
imp_line_sorted(books, line) ==
  IF ~line.matched
  THEN books
  ELSE LET nm == usfm_to_name(str_upper(line.code), line.code)
           books1 == IF book_index(books, nm) = 0
                     THEN Append(books, [name |-> nm, chapters |-> <<>>])
                     ELSE books
           b == book_index(books1, nm)
           below(c) == c.number < line.ch
           above(c) == c.number > line.ch
           chapters1 == IF chapter_index(books1[b].chapters, line.ch) = 0
                        THEN SelectSeq(books1[b].chapters, below)
                               \o <<[number |-> line.ch, items |-> <<>>]>>
                               \o SelectSeq(books1[b].chapters, above)
                        ELSE books1[b].chapters
           c == chapter_index(chapters1, line.ch)
       IN  [books1 EXCEPT ![b].chapters =
              [chapters1 EXCEPT ![c].items = Append(@, verse_item(line.vn, line.text))]]

\* one iteration of the loop over the lines
imp_line(books, line) ==
  IF ~line.matched
  THEN books
  ELSE LET nm == usfm_to_name(str_upper(line.code), line.code)
           books1 == IF book_index(books, nm) = 0
                     THEN Append(books, [name |-> nm, chapters |-> <<>>])
                     ELSE books
           b == book_index(books1, nm)
           chapters1 == IF chapter_index(books1[b].chapters, line.ch) = 0
                        THEN Append(books1[b].chapters, [number |-> line.ch, items |-> <<>>])
                        ELSE books1[b].chapters
           c == chapter_index(chapters1, line.ch)
       IN  [books1 EXCEPT ![b].chapters =
              [chapters1 EXCEPT ![c].items = Append(@, verse_item(line.vn, line.text))]]

\* the conversion of the dict to the list and the return
imp_return(books) ==
  [status |-> "ok",
   books |-> [k \in 1..Len(books) |->
                [name |-> books[k].name, chapters |-> books[k].chapters]]]

RECURSIVE imp_loop(_, _)
imp_loop(books, lines) ==
  IF lines = <<>> THEN books ELSE imp_loop(imp_line(books, Head(lines)), Tail(lines))

load_imp(lines) == imp_return(imp_loop(<<>>, lines))

(***************************************************************************)
(* load_any                                                                *)
(*                                                                         *)
(* A file is its suffix and text (what detect_format reads) and what its   *)
(* parser makes of it: lines for the line formats; for JSON and XML,       *)
(* whether the document parses (wellformed), the dialect of its root and   *)
(* the books it holds.                                                     *)
(***************************************************************************)

\* load_osis, load_simple_bible_xml, load_zefania: ET.parse and the walk
\* over the elements of the loader's own dialect
load_xml(file, fmt) ==
  IF ~file.wellformed
  THEN [status |-> "ParseError", books |-> <<>>]
  ELSE [status |-> "ok", books |-> IF file.root = fmt THEN file.books ELSE <<>>]

load_json_bible(file) ==
  IF ~file.wellformed
  THEN [status |-> "JSONDecodeError", books |-> <<>>]
  ELSE [status |-> "ok", books |-> file.books]

load_any(file) ==
  LET fmt == detect_format(file)
  IN  IF fmt = "ValueError" THEN [status |-> "ValueError", books |-> <<>>]
      ELSE IF fmt = "json" THEN load_json_bible(file)
      ELSE IF fmt = "usfm" THEN load_usfm(file.lines)
      ELSE IF fmt \in {"osis", "simplexml", "zefania"} THEN load_xml(file, fmt)
      ELSE load_imp(file.lines)

(***************************************************************************)
(* load_from_directory                                                     *)
(***************************************************************************)

\* the body of the loop over data["books"], with a chapter of the later
\* book put in the place of the existing chapter of its number
merge_book_overwrites(acc, book) ==
  LET k == book_index(acc, book.name)
  IN  IF k = 0
      THEN Append(acc, book)
      ELSE LET replaced(c) ==
                 LET j == chapter_index(book.chapters, c.number)
                 IN  IF j = 0 THEN c ELSE book.chapters[j]
               existing_numbers == {acc[k].chapters[j].number :
                                      j \in 1..Len(acc[k].chapters)}
               is_new(c) == c.number \notin existing_numbers
           IN  [acc EXCEPT ![k].chapters =
                  [j \in 1..Len(@) |-> replaced(@[j])]
                    \o SelectSeq(book.chapters, is_new)]

\* the body of the loop over data["books"]
merge_book(acc, book) ==
  LET k == book_index(acc, book.name)
  IN  IF k = 0
      THEN Append(acc, book)
      ELSE LET existing_chapters == {acc[k].chapters[j].number :
                                       j \in 1..Len(acc[k].chapters)}
               is_new(c) == c.number \notin existing_chapters
           IN  [acc EXCEPT ![k].chapters = @ \o SelectSeq(book.chapters, is_new)]

RECURSIVE merge_books(_, _)
merge_books(acc, books) ==
  IF books = <<>>
  THEN acc
  ELSE merge_books(merge_book(acc, Head(books)), Tail(books))

\* one iteration of the loop over dirpath.iterdir()
directory_entry(acc, file) ==
  IF ~file.isfile
  THEN [status |-> "ok", all_books |-> acc]
  ELSE LET data == load_any(file)
       IN  IF data.status # "ok"
           THEN [status |-> data.status, all_books |-> acc]
           ELSE [status |-> "ok", all_books |-> merge_books(acc, data.books)]

(***************************************************************************)
(* convert_book, build_manifest and the loop of main                       *)
(*                                                                         *)
(* A Python list is [py |-> "list", items |-> ...]; a content node that is *)
(* a dict would be [py |-> "dict", ...].  A dict keyed by book id is a     *)
(* function on the ids it holds.                                           *)
(***************************************************************************)

RECURSIVE join(_, _)
\* sep.join(lines)
join(sep, lines) ==
  IF lines = <<>> THEN <<>>
  ELSE IF Len(lines) = 1 THEN lines[1]
  ELSE lines[1] \o sep \o join(sep, Tail(lines))

convert_chapter_item(it) == [py |-> "list", items |-> <<join(<<" ">>, it.lines)>>]

convert_book(book) ==
  LET r == find_book_id_from_name(book.name)
  IN  IF r.status # "ok"
      THEN [status |-> r.status]
      ELSE [status |-> "ok",
            book_id |-> r.abbr,
            rust_book |->
              [book |-> r.abbr,
               name |-> BOOK_MAP[r.entry],
               contents |->
                 [c \in 1..Len(book.chapters) |->
                    [v \in 1..Len(book.chapters[c].items) |->
                       convert_chapter_item(book.chapters[c].items[v])]]]]

\* d[k] = v
put(d, k, v) == [x \in (DOMAIN d) \cup {k} |-> IF x = k THEN v ELSE d[x]]

build_manifest(books) ==
  [book_names |-> [bid \in DOMAIN books |-> books[bid].name],
   chapter_headings |-> <<>>,
   sections |-> <<>>]

\* one iteration of the loop of main that keeps the book first recorded
\* for an id
main_book_keeps_first(out, book) ==
  LET r == convert_book(book)
  IN  IF r.status # "ok"
      THEN [out EXCEPT !.warnings = Append(@, book.name)]
      ELSE IF r.book_id \in DOMAIN out.converted
      THEN out
      ELSE [out EXCEPT !.converted = put(@, r.book_id, r.rust_book),
                       !.books_dir = put(@, r.book_id, r.rust_book)]

\* one iteration of the loop of main that leaves the loop at the first
\* book that fails
main_book_stops(out, book) ==
  LET r == convert_book(book)
  IN  IF out.warnings # <<>> \/ r.status # "ok"
      THEN [out EXCEPT !.warnings = Append(@, book.name)]
      ELSE [out EXCEPT !.converted = put(@, r.book_id, r.rust_book),
                       !.books_dir = put(@, r.book_id, r.rust_book)]

\* one iteration of the loop of main: out is converted, the files of
\* books/ and the warnings printed
main_book(out, book) ==
  LET r == convert_book(book)
  IN  IF r.status # "ok"
      THEN [out EXCEPT !.warnings = Append(@, book.name)]
      ELSE [out EXCEPT !.converted = put(@, r.book_id, r.rust_book),
                       !.books_dir = put(@, r.book_id, r.rust_book)]

(***************************************************************************)
(* Inputs                                                                  *)
(***************************************************************************)

MaxNameLen == 3

MaxChunks == 2

MaxUsfmLines == 4

MaxImpLines == 4

MaxFiles == 3

\* every sequence over S of length 0..n
SeqsUpTo(S, n) == UNION {[1..k -> S] : k \in 0..n}

RECURSIVE flatten(_)
flatten(ss) == IF ss = <<>> THEN <<>> ELSE Head(ss) \o flatten(Tail(ss))

NameAlphabet == {"1", "3", "j", "O", " ", "LF"}

Corintios1 == <<"1", " ", "C", "o", "r", "i", "n", "t", "i", "o", "s">>

Corintios1NoSpace == <<"1", "c", "o", "r", "i", "n", "t", "i", "o", "s">>

Genesis == <<"G", "e'", "n", "e", "s", "i", "s">>

GenesisPlain == <<"g", "e", "n", "e", "s", "i", "s">>

GenesisUpper == <<"G", "E", "N", "E", "S", "I", "S">>

Juan == <<"J", "u", "a", "n">>

Zzyx == <<"Z", "z", "y", "x">>

NameInputs ==
  SeqsUpTo(NameAlphabet, MaxNameLen)
    \cup {Corintios1, Corintios1NoSpace, Genesis, GenesisPlain, GenesisUpper, Juan, Zzyx}

Suffixes ==
  { <<".", "j", "s", "o", "n">>, <<".", "J", "S", "O", "N">>,
    <<".", "u", "s", "f", "m">>, <<".", "t", "x", "t">>,
    <<".", "i", "m", "p">>, <<".", "x", "m", "l">>, <<".", "X", "m", "l">>,
    <<".", "m", "d">>, <<".", "x", "m">>, <<>> }

TextChunks ==
  { <<"<", "o", "s", "i", "s">>,
    <<"<", "X", "M", "L", "B", "I", "B", "L", "E">>,
    <<"<", "b", "i", "b", "l", "e">>,
    <<"<", "b", " ">>,
    <<"<", "o", "s">>,
    <<"i", "s", ">">> }

Texts == {flatten(cs) : cs \in SeqsUpTo(TextChunks, MaxChunks)}

usfm_input(kind, code, n, text) == [kind |-> kind, code |-> code, n |-> n, text |-> text]

UsfmLineSet ==
  { usfm_input("id", <<"g", "e", "n">>, 0, <<>>),
    usfm_input("id", <<"X", "Y", "Z">>, 0, <<>>),
    usfm_input("c", <<>>, 1, <<>>),
    usfm_input("c", <<>>, 2, <<>>),
    usfm_input("v", <<>>, 1, <<"A">>),
    usfm_input("other", <<>>, 0, <<>>) }

imp_input(matched, code, ch, vn, text) ==
  [matched |-> matched, code |-> code, ch |-> ch, vn |-> vn, text |-> text]

ImpLineSet ==
  { imp_input(TRUE, <<"G", "E", "N">>, 2, 1, <<"A">>),
    imp_input(TRUE, <<"g", "e", "n">>, 1, 2, <<"B">>),
    imp_input(TRUE, <<"G", "e", "n">>, 2, 3, <<"C">>),
    imp_input(TRUE, <<"X", "y">>, 2, 1, <<"A">>),
    imp_input(TRUE, <<"X", "y">>, 1, 1, <<"B">>),
    imp_input(FALSE, <<>>, 0, 0, <<>>) }

chapter_of(n, text) == [number |-> n, items |-> <<verse_item(1, text)>>]

book_of(nm, chapters) == [name |-> nm, chapters |-> chapters]

file_of(isfile, suffix, text, wellformed, root, books, lines) ==
  [isfile |-> isfile, suffix |-> suffix, text |-> text, wellformed |-> wellformed,
   root |-> root, books |-> books, lines |-> lines]

json_file(books) == file_of(TRUE, <<".", "j", "s", "o", "n">>, <<>>, TRUE, "json", books, <<>>)

FileA == json_file(<<book_of(Genesis, <<chapter_of(1, <<"A">>)>>)>>)

FileB == json_file(<<book_of(Genesis, <<chapter_of(1, <<"B">>), chapter_of(2, <<"B">>)>>)>>)

FileC ==
  file_of(TRUE, <<".", "x", "m", "l">>,
          <<"<", "b", "i", "b", "l", "e">> \o <<"<", "b", " ">>, TRUE, "simplexml",
          <<book_of(GenesisPlain, <<chapter_of(2, <<"C">>), chapter_of(3, <<"C">>)>>)>>, <<>>)

FileD ==
  json_file(<<book_of(Genesis, <<chapter_of(2, <<"D">>)>>),
              book_of(Zzyx, <<chapter_of(1, <<"D">>)>>),
              book_of(Genesis, <<chapter_of(2, <<"E">>), chapter_of(4, <<"E">>)>>),
              book_of(Juan,
                      <<[number |-> 1,
                         items |-> <<[type |-> "section2", verse |-> 0, lines |-> <<<<"T">>>>],
                                     [type |-> "verse", verse |-> 1,
                                      lines |-> <<<<"D">>, <<"E">>>>],
                                     [type |-> "heading1", verse |-> 0, lines |-> <<<<"U">>>>]>>]>>)>>)

FileNotes == file_of(TRUE, <<".", "m", "d">>, <<>>, TRUE, "none", <<>>, <<>>)

FileBroken ==
  file_of(TRUE, <<".", "x", "m", "l">>, <<"<", "o", "s", "i", "s">>, FALSE, "none", <<>>, <<>>)

FileUsfm ==
  file_of(TRUE, <<".", "u", "s", "f", "m">>, <<>>, TRUE, "none", <<>>,
          <<usfm_input("id", <<"G", "E", "N">>, 0, <<>>),
            usfm_input("c", <<>>, 3, <<>>),
            usfm_input("v", <<>>, 1, <<"G">>)>>)

FileImp ==
  file_of(TRUE, <<".", "i", "m", "p">>, <<>>, TRUE, "none", <<>>,
          <<imp_input(TRUE, <<"G", "E", "N">>, 2, 1, <<"H">>),
            imp_input(TRUE, <<"J", "H", "N">>, 1, 1, <<"H">>)>>)

FileTxt ==
  file_of(TRUE, <<".", "t", "x", "t">>, <<>>, TRUE, "none", <<>>,
          <<usfm_input("c", <<>>, 1, <<>>), usfm_input("v", <<>>, 1, <<"X">>)>>)

FileZefania ==
  file_of(TRUE, <<".", "X", "M", "L">>,
          <<"<", "X", "M", "L", "B", "I", "B", "L", "E">>, TRUE, "zefania",
          <<book_of(Juan, <<chapter_of(1, <<"Z">>), chapter_of(2, <<"Z">>)>>)>>, <<>>)

Subdirectory == file_of(FALSE, <<>>, <<>>, TRUE, "none", <<>>, <<>>)

FilePool ==
  {FileA, FileB, FileC, FileD, FileNotes, FileBroken, FileUsfm, FileImp, FileTxt,
   FileZefania, Subdirectory}

Inputs ==
  {[is_dir |-> TRUE, entries |-> fs] : fs \in SeqsUpTo(FilePool, MaxFiles)}
    \cup {[is_dir |-> FALSE, entries |-> <<f>>] : f \in FilePool \ {Subdirectory}}

(***************************************************************************)
(* The state machines                                                      *)
(***************************************************************************)

Pending == [status |-> "pending"]

NoOutput == [converted |-> <<>>, books_dir |-> <<>>, warnings |-> <<>>]

IdleResolve == name = None /\ resolved = Pending

IdleDetect == path = None /\ detected = None

IdleUsfm == usfm_lines = <<>> /\ usfm_pos = 0 /\ usfm = usfm_start /\ usfm_result = Pending

IdleImp == imp_lines = <<>> /\ imp_pos = 0 /\ imp_books = <<>> /\ imp_result = Pending

IdleMain ==
  /\ input = None
  /\ pc = "idle"
  /\ file_pos = 0
  /\ all_books = <<>>
  /\ source = <<>>
  /\ book_pos = 0
  /\ outputs = NoOutput
  /\ manifest = <<>>

\* find_book_id_from_name, one call

InitResolve ==
  /\ name \in NameInputs
  /\ resolved = Pending
  /\ IdleDetect /\ IdleUsfm /\ IdleImp /\ IdleMain

Resolve ==
  /\ resolved.status = "pending"
  /\ resolved' = find_book_id_from_name(name)
  /\ UNCHANGED <<name, detectVars, usfmVars, impVars, mainVars>>

NextResolve == Resolve

SpecResolve == InitResolve /\ [][NextResolve]_vars

\* detect_format, one call

InitDetect ==
  /\ path \in [suffix : Suffixes, text : Texts]
  /\ detected = None
  /\ IdleResolve /\ IdleUsfm /\ IdleImp /\ IdleMain

Detect ==
  /\ detected = None
  /\ detected' = detect_format(path)
  /\ UNCHANGED <<path, resolveVars, usfmVars, impVars, mainVars>>

NextDetect == Detect

SpecDetect == InitDetect /\ [][NextDetect]_vars

\* load_usfm, line by line

InitUsfm ==
  /\ usfm_lines \in SeqsUpTo(UsfmLineSet, MaxUsfmLines)
  /\ usfm_pos = 1
  /\ usfm = usfm_start
  /\ usfm_result = Pending
  /\ IdleResolve /\ IdleDetect /\ IdleImp /\ IdleMain

UsfmLine ==
  /\ usfm_result.status = "pending"
  /\ usfm_pos <= Len(usfm_lines)
  /\ usfm' = usfm_line(usfm, usfm_lines[usfm_pos])
  /\ usfm_pos' = usfm_pos + 1
  /\ usfm_result' = IF usfm'.status = "running"
                    THEN usfm_result
                    ELSE [status |-> usfm'.status, books |-> <<>>]
  /\ UNCHANGED <<usfm_lines, resolveVars, detectVars, impVars, mainVars>>

UsfmReturn ==
  /\ usfm_result.status = "pending"
  /\ usfm_pos > Len(usfm_lines)
  /\ usfm_result' = usfm_return(usfm)
  /\ UNCHANGED <<usfm_lines, usfm_pos, usfm, resolveVars, detectVars, impVars, mainVars>>

NextUsfm == UsfmLine \/ UsfmReturn

SpecUsfm == InitUsfm /\ [][NextUsfm]_vars

\* load_imp, line by line

InitImp ==
  /\ imp_lines \in SeqsUpTo(ImpLineSet, MaxImpLines)
  /\ imp_pos = 1
  /\ imp_books = <<>>
  /\ imp_result = Pending
  /\ IdleResolve /\ IdleDetect /\ IdleUsfm /\ IdleMain

ImpLine ==
  /\ imp_result.status = "pending"
  /\ imp_pos <= Len(imp_lines)
  /\ imp_books' = imp_line(imp_books, imp_lines[imp_pos])
  /\ imp_pos' = imp_pos + 1
  /\ UNCHANGED <<imp_lines, imp_result, resolveVars, detectVars, usfmVars, mainVars>>

ImpReturn ==
  /\ imp_result.status = "pending"
  /\ imp_pos > Len(imp_lines)
  /\ imp_result' = imp_return(imp_books)
  /\ UNCHANGED <<imp_lines, imp_pos, imp_books, resolveVars, detectVars, usfmVars, mainVars>>

NextImp == ImpLine \/ ImpReturn

SpecImp == InitImp /\ [][NextImp]_vars

\* main: the load of the input, the loop over the books, the manifest

Init ==
  /\ input \in Inputs
  /\ pc = IF input.is_dir THEN "load_from_directory" ELSE "load_any"
  /\ file_pos = 1
  /\ all_books = <<>>
  /\ source = <<>>
  /\ book_pos = 1
  /\ outputs = NoOutput
  /\ manifest = <<>>
  /\ IdleResolve /\ IdleDetect /\ IdleUsfm /\ IdleImp

\* one iteration of the loop of load_from_directory; an exception of
\* load_any is caught nowhere and ends main
LoadDirectoryEntry ==
  /\ pc = "load_from_directory"
  /\ file_pos <= Len(input.entries)
  /\ LET r == directory_entry(all_books, input.entries[file_pos])
     IN  /\ all_books' = r.all_books
         /\ pc' = IF r.status = "ok" THEN pc ELSE "raised"
  /\ file_pos' = file_pos + 1
  /\ UNCHANGED <<input, source, book_pos, outputs, manifest>>
  /\ UNCHANGED <<resolveVars, detectVars, usfmVars, impVars>>

LoadDirectoryReturn ==
  /\ pc = "load_from_directory"
  /\ file_pos > Len(input.entries)
  /\ source' = all_books
  /\ pc' = "convert"
  /\ UNCHANGED <<input, file_pos, all_books, book_pos, outputs, manifest>>
  /\ UNCHANGED <<resolveVars, detectVars, usfmVars, impVars>>

LoadSingleFile ==
  /\ pc = "load_any"
  /\ LET data == load_any(input.entries[1])
     IN  /\ source' = data.books
         /\ pc' = IF data.status = "ok" THEN "convert" ELSE "raised"
  /\ UNCHANGED <<input, file_pos, all_books, book_pos, outputs, manifest>>
  /\ UNCHANGED <<resolveVars, detectVars, usfmVars, impVars>>

ConvertBook ==
  /\ pc = "convert"
  /\ book_pos <= Len(source)
  /\ outputs' = main_book(outputs, source[book_pos])
  /\ book_pos' = book_pos + 1
  /\ UNCHANGED <<input, pc, file_pos, all_books, source, manifest>>
  /\ UNCHANGED <<resolveVars, detectVars, usfmVars, impVars>>

WriteManifest ==
  /\ pc = "convert"
  /\ book_pos > Len(source)
  /\ manifest' = <<build_manifest(outputs.converted)>>
  /\ pc' = "done"
  /\ UNCHANGED <<input, file_pos, all_books, source, book_pos, outputs>>
  /\ UNCHANGED <<resolveVars, detectVars, usfmVars, impVars>>

Next ==
  \/ LoadDirectoryEntry
  \/ LoadDirectoryReturn
  \/ LoadSingleFile
  \/ ConvertBook
  \/ WriteManifest

Spec == Init /\ [][Next]_vars

(***************************************************************************)
(* Claims about the resolver                                               *)
(***************************************************************************)

\* the tiers as the specification words them, for entry i and input n
tier_matches(k, n, i) ==
  LET nn == normalize(n)
  IN  CASE k = 1 -> str_lower(BOOK_MAP[i].long) = str_lower(n)
        [] k = 2 -> normalize(BOOK_MAP[i].long) = nn
        [] k = 3 -> /\ Len(nn) >= 2
                    /\ nn[1] \in {"1", "2", "3"}
                    /\ BOOK_MAP[i].abbr[1] = nn[1]
                    /\ startswith(normalize(BOOK_MAP[i].long), Tail(nn))
        [] k = 4 -> contains(normalize(BOOK_MAP[i].long), nn)

tier_entries(k, n) == {i \in 1..NBooks : tier_matches(k, n, i)}

matching_tiers(n) == {k \in 1..4 : tier_entries(k, n) # {}}

Min(S) == CHOOSE x \in S : \A y \in S : x <= y

\* C4: the returned id is the first entry, in table order, of the
\* lowest-numbered tier that has a match (1 exact long name ignoring case,
\* 2 normalized long name, 3 digit 1-3 equal to the id's first character and
\* the rest a prefix of the normalized long name, 4 normalized substring);
\* the call fails only when no tier has a match.
C4_StrictTierPriority ==
  resolved.status # "pending" =>
    IF matching_tiers(name) = {}
    THEN resolved.status = "ValueError"
    ELSE /\ resolved.status = "ok"
         /\ resolved.entry = Min(tier_entries(Min(matching_tiers(name)), name))

Co1 == <<"1", "c", "o">>

\* C5 as stated: "1 Corintios" resolves to 1co by tier 1 and "1corintios"
\* resolves to 1co by tier 3, no earlier tier matching it.
C5_NoSpaceDecidedByTier3 ==
  resolved.status # "pending" =>
    /\ name = Corintios1 =>
         resolved.status = "ok" /\ resolved.abbr = Co1 /\ resolved.tier = 1
    /\ name = Corintios1NoSpace =>
         resolved.status = "ok" /\ resolved.abbr = Co1 /\ resolved.tier = 3

\* C5 as amended: "1 Corintios" resolves to 1co by tier 1 and "1corintios"
\* resolves to 1co by tier 2, the normalized exact match; tier 1 does not
\* match it and tier 3 is never consulted.
C5_NoSpaceDecidedByTier2 ==
  resolved.status # "pending" =>
    /\ name = Corintios1 =>
         resolved.status = "ok" /\ resolved.abbr = Co1 /\ resolved.tier = 1
    /\ name = Corintios1NoSpace =>
         /\ resolved.status = "ok" /\ resolved.abbr = Co1 /\ resolved.tier = 2
         /\ tier_entries(1, name) = {}

C5_Witness ==
  /\ name = Corintios1NoSpace
  /\ resolved.status = "ok"
  /\ resolved.tier = 2

(***************************************************************************)
(* Claims about the detector                                               *)
(***************************************************************************)

has_osis == contains(path.text, <<"<", "o", "s", "i", "s">>)

has_xmlbible == contains(path.text, <<"<", "X", "M", "L", "B", "I", "B", "L", "E">>)

\* C8: the format is decided by the extension (letter case ignored) and,
\* for .xml only, by the markers: .json is json, .usfm and .txt are usfm,
\* .imp is imp; .xml is osis with "<osis", otherwise zefania with
\* "<XMLBIBLE", otherwise simplexml, never rejected; any other extension is
\* rejected.
C8_DetectByExtensionAndMarkers ==
  detected # None =>
    LET ext == str_lower(path.suffix)
    IN  /\ ext = <<".", "j", "s", "o", "n">> => detected = "json"
        /\ ext = <<".", "u", "s", "f", "m">> => detected = "usfm"
        /\ ext = <<".", "t", "x", "t">> => detected = "usfm"
        /\ ext = <<".", "i", "m", "p">> => detected = "imp"
        /\ ext = <<".", "x", "m", "l">> /\ has_osis => detected = "osis"
        /\ ext = <<".", "x", "m", "l">> /\ ~has_osis /\ has_xmlbible
             => detected = "zefania"
        /\ ext = <<".", "x", "m", "l">> /\ ~has_osis /\ ~has_xmlbible
             => detected = "simplexml"
        /\ ext \notin { <<".", "j", "s", "o", "n">>, <<".", "u", "s", "f", "m">>,
                        <<".", "t", "x", "t">>, <<".", "i", "m", "p">>,
                        <<".", "x", "m", "l">> }
             => detected = "ValueError"

C8_Witness ==
  /\ str_lower(path.suffix) = <<".", "x", "m", "l">>
  /\ has_osis
  /\ has_xmlbible
  /\ detected = "osis"

(***************************************************************************)
(* Claims about the parsers                                                *)
(***************************************************************************)

\* the indices of lines, in order, whose line is of the kind
indices_of_kind(lines, kind) ==
  LET at(i) == lines[i].kind = kind
  IN  SelectSeq([i \in 1..Len(lines) |-> i], at)

\* seq without the later occurrences of an element
without_repeats(seq) ==
  LET first(i) == \A j \in 1..(i - 1) : seq[j] # seq[i]
      kept == SelectSeq([i \in 1..Len(seq) |-> i], first)
  IN  [k \in 1..Len(kept) |-> seq[kept[k]]]

imp_name(l) == usfm_to_name(str_upper(l.code), l.code)

\* what the claim says the books are after the lines of prefix
imp_grouped(books, prefix) ==
  LET matching(l) == l.matched
      m == SelectSeq(prefix, matching)
      names == {imp_name(m[i]) : i \in 1..Len(m)}
  IN  /\ Len(books) = Cardinality(names)
      /\ {books[k].name : k \in 1..Len(books)} = names
      /\ \A k \in 1..Len(books) :
           LET of_book(l) == imp_name(l) = books[k].name
               mb == SelectSeq(m, of_book)
               chapters == books[k].chapters
           IN  /\ [j \in 1..Len(chapters) |-> chapters[j].number]
                    = without_repeats([i \in 1..Len(mb) |-> mb[i].ch])
               /\ \A j \in 1..Len(chapters) :
                    LET of_chapter(l) == l.ch = chapters[j].number
                        mc == SelectSeq(mb, of_chapter)
                    IN  chapters[j].items
                          = [i \in 1..Len(mc) |-> verse_item(mc[i].vn, mc[i].text)]

\* C9: after any lines, load_imp holds one book per distinct display name
\* and in it one chapter per distinct chapter number, the chapters in the
\* order their numbers were first met, each holding the verses of the
\* matching lines of its book and number in input order; lines that do not
\* match add nothing.
C9_ImpGroupsByBookAndChapter ==
  /\ imp_pos >= 1 => imp_grouped(imp_books, SubSeq(imp_lines, 1, imp_pos - 1))
  /\ imp_result.status # "pending" =>
       imp_result.status = "ok" /\ imp_grouped(imp_result.books, imp_lines)

C9_Witness ==
  /\ imp_result.status = "ok"
  /\ Len(imp_result.books) = 2
  /\ \E k \in 1..2 :
       /\ Len(imp_result.books[k].chapters) = 2
       /\ imp_result.books[k].chapters[1].number = 2
       /\ imp_result.books[k].chapters[2].number = 1
       /\ Len(imp_result.books[k].chapters[1].items) = 2
  /\ imp_name(imp_lines[1]) # imp_name(imp_lines[2])
  /\ imp_name(imp_lines[1]) = imp_name(imp_lines[Len(imp_lines)])

\* what the claim says the books of the lines are
usfm_structured(books, lines) ==
  LET ids == indices_of_kind(lines, "id")
      last_of(k) == IF k < Len(ids) THEN ids[k + 1] - 1 ELSE Len(lines)
  IN  /\ Len(books) = Len(ids)
      /\ \A k \in 1..Len(ids) :
           LET code == str_upper(lines[ids[k]].code)
               part == SubSeq(lines, ids[k] + 1, last_of(k))
               cs == indices_of_kind(part, "c")
               end_of(j) == IF j < Len(cs) THEN cs[j + 1] - 1 ELSE Len(part)
               chapters == books[k].chapters
           IN  /\ books[k].name = usfm_to_name(code, code)
               /\ Len(chapters) = Len(cs)
               /\ \A j \in 1..Len(cs) :
                    LET is_v(l) == l.kind = "v"
                        vs == SelectSeq(SubSeq(part, cs[j] + 1, end_of(j)), is_v)
                    IN  /\ chapters[j].number = part[cs[j]].n
                        /\ chapters[j].items
                             = [i \in 1..Len(vs) |-> verse_item(vs[i].n, vs[i].text)]

\* C10: for every sequence of lines load_usfm returns without failing, and
\* the books are those of the identification markers in order, each with
\* the chapters between its marker and the next, each chapter with the
\* verses that follow it; other lines are ignored and no markers give no
\* books.
C10_UsfmReturnsForAnyLines ==
  usfm_result.status # "pending" =>
    /\ usfm_result.status = "ok"
    /\ usfm_structured(usfm_result.books, usfm_lines)

(***************************************************************************)
(* Claims about the directory merger and main                              *)
(***************************************************************************)

\* load_any on every file of the pool
loaded == [f \in FilePool |-> load_any(f)]

RECURSIVE loaded_books(_)
\* the books of the entries that are files and load, in processing order
loaded_books(files) ==
  IF files = <<>> THEN <<>>
  ELSE LET f == Head(files)
       IN  (IF f.isfile /\ loaded[f].status = "ok" THEN loaded[f].books ELSE <<>>)
             \o loaded_books(Tail(files))

chapter_numbers(book) == {book.chapters[j].number : j \in 1..Len(book.chapters)}

chapters_numbered(book, n) ==
  LET has_number(ch) == ch.number = n
  IN  SelectSeq(book.chapters, has_number)

\* the chapters of the books of occs: those of the first, then of every
\* later one the chapters whose number no earlier one has
RECURSIVE first_seen_chapters(_, _)
first_seen_chapters(occs, seen) ==
  IF occs = <<>> THEN <<>>
  ELSE LET is_new(ch) == ch.number \notin seen
       IN  SelectSeq(Head(occs).chapters, is_new)
             \o first_seen_chapters(Tail(occs), seen \cup chapter_numbers(Head(occs)))

\* merged is the union by display name of the books of occs
merged_by_name(merged, occs) ==
  /\ {merged[k].name : k \in 1..Len(merged)} = {occs[i].name : i \in 1..Len(occs)}
  /\ \A j, k \in 1..Len(merged) : merged[j].name = merged[k].name => j = k
  /\ \A k \in 1..Len(merged) :
       LET same_name(b) == b.name = merged[k].name
           mine == SelectSeq(occs, same_name)
       IN  /\ merged[k].chapters = first_seen_chapters(mine, {})
           /\ \A n \in chapter_numbers(merged[k]) :
                LET first == CHOOSE i \in 1..Len(mine) :
                               /\ n \in chapter_numbers(mine[i])
                               /\ \A h \in 1..(i - 1) : n \notin chapter_numbers(mine[h])
                IN  chapters_numbered(merged[k], n) = chapters_numbered(mine[first], n)

\* C1: after any files, for every display name and chapter number the
\* merged book holds exactly the chapter of the first book, in processing
\* order, that had the number; a later chapter of a number already present
\* is discarded and a later chapter of a new number is appended after the
\* existing ones.
C1_FirstSeenChapterWins ==
  pc \in {"load_from_directory", "raised", "convert", "done"} /\ input.is_dir =>
    LET processed == IF pc = "load_from_directory"
                     THEN SubSeq(input.entries, 1, file_pos - 1)
                     ELSE IF pc = "raised"
                     THEN SubSeq(input.entries, 1, file_pos - 2)
                     ELSE input.entries
    IN  /\ merged_by_name(all_books, loaded_books(processed))
        /\ pc \in {"convert", "done"} => source = all_books

C1_Witness ==
  /\ input.is_dir
  /\ pc = "convert"
  /\ input.entries = <<FileA, FileB>>
  /\ source = <<book_of(Genesis, <<chapter_of(1, <<"A">>), chapter_of(2, <<"B">>)>>)>>

\* C2: in directory mode a file that cannot be loaded is skipped:
\* load_from_directory returns and its result holds the books of every
\* other file.
C2_UnloadableFileSkipped ==
  pc # "idle" /\ input.is_dir =>
    /\ pc # "raised"
    /\ pc \in {"convert", "done"} =>
         merged_by_name(source, loaded_books(input.entries))

\* the display names the files of the pool can give
SourceNames ==
  UNION {LET books == loaded_books(<<f>>)
         IN  {books[k].name : k \in 1..Len(books)} : f \in FilePool}

\* find_book_id_from_name on every display name
resolution_of == [n \in SourceNames |-> find_book_id_from_name(n)]

\* find_book_id_from_name on the name of every book of source
resolutions == [k \in 1..Len(source) |-> resolution_of[source[k].name]]

\* C3: a book the resolver rejects is skipped and the books after it are
\* still converted; the keys of converted, the files of books/ and, at the
\* end, the keys of book_names are exactly the ids resolved in this run.
C3_ManifestKeysAreResolvedIds ==
  pc \in {"convert", "done"} =>
    LET r == resolutions
        seen == 1..(book_pos - 1)
        ids == {r[k].abbr : k \in {j \in seen : r[j].status = "ok"}}
        rejected(k) == k \in seen /\ r[k].status # "ok"
        skipped == SelectSeq([k \in 1..Len(source) |-> k], rejected)
    IN  /\ DOMAIN outputs.converted = ids
        /\ DOMAIN outputs.books_dir = ids
        /\ outputs.warnings = [k \in 1..Len(skipped) |-> source[skipped[k]].name]
        /\ pc = "done" =>
             /\ book_pos = Len(source) + 1
             /\ DOMAIN manifest[1].book_names = ids

C3_Witness ==
  /\ pc = "done"
  /\ LET r == resolutions
     IN  \E j, k \in 1..Len(source) :
           /\ j < k
           /\ r[j].status # "ok"
           /\ r[k].status = "ok"
           /\ r[k].abbr \in DOMAIN manifest[1].book_names
           /\ r[k].abbr \in DOMAIN outputs.books_dir

HeadingKinds == {"heading1", "heading2", "section1", "section2", "label"}

heading_level(kind) == IF kind \in {"heading2", "section2"} THEN 2 ELSE 1

\* the index of the last book of source, among those converted, that
\* resolved to id
recorded_for(r, id) ==
  CHOOSE k \in 1..(book_pos - 1) :
    /\ r[k].status = "ok" /\ r[k].abbr = id
    /\ \A j \in (k + 1)..(book_pos - 1) : ~(r[j].status = "ok" /\ r[j].abbr = id)

\* C6: every Heading item becomes a heading node with the text and the
\* level of its kind (heading1, section1, label: 1; heading2, section2: 2),
\* never a verse node.
C6_HeadingBecomesHeadingNode ==
  pc \in {"convert", "done"} =>
    \A id \in DOMAIN outputs.converted :
      LET book == source[recorded_for(resolutions, id)]
          contents == outputs.converted[id].contents
      IN  \A c \in 1..Len(book.chapters) :
            \A v \in 1..Len(book.chapters[c].items) :
              LET it == book.chapters[c].items[v]
                  node == contents[c][v]
              IN  it.type \in HeadingKinds =>
                    /\ node.py = "dict"
                    /\ node.Heading.level = heading_level(it.type)
                    /\ node.Heading.contents = join(<<" ">>, it.lines)

contents_of(chapters) ==
  [c \in 1..Len(chapters) |->
     [v \in 1..Len(chapters[c].items) |-> convert_chapter_item(chapters[c].items[v])]]

\* C7 as stated: in the directory path the book recorded for an id holds
\* the chapters of every file's book that resolves to the id, the first
\* seen on a collision of numbers.
C7_SameIdChaptersOfBothFiles ==
  pc = "done" /\ input.is_dir =>
    \A id \in DOMAIN outputs.converted :
      LET same_id(b) ==
            LET rb == resolution_of[b.name]
            IN  rb.status = "ok" /\ rb.abbr = id
          mine == SelectSeq(loaded_books(input.entries), same_id)
      IN  outputs.converted[id].contents = contents_of(first_seen_chapters(mine, {}))

\* C7 as amended: the directory path merges by display name, so the book
\* recorded for an id holds the chapters of every file's book of one
\* display name; of the merged books of different names that resolve to
\* one id the last replaces the earlier ones, in the directory path as in
\* the single-file path.
C7_SameNameMergedSameIdReplaced ==
  pc = "done" =>
    /\ input.is_dir => merged_by_name(source, loaded_books(input.entries))
    /\ \A id \in DOMAIN outputs.converted :
         /\ outputs.converted[id].contents
              = contents_of(source[recorded_for(resolutions, id)].chapters)
         /\ outputs.books_dir[id] = outputs.converted[id]

C7_Witness ==
  /\ pc = "done"
  /\ input.is_dir
  /\ LET r == resolutions
     IN  \E j, k \in 1..Len(source) :
           /\ j < k
           /\ r[j].status = "ok" /\ r[k].status = "ok"
           /\ r[j].abbr = r[k].abbr
           /\ outputs.converted[r[k].abbr].contents = contents_of(source[k].chapters)
           /\ Len(source[j].chapters) >= 2
           /\ source[j].chapters[1].items # source[j].chapters[2].items
           /\ chapter_numbers(source[j]) \ chapter_numbers(source[k]) # {}

====
